---- MODULE Spec2Model ----
(***************************************************************************)
(* A model of tetravex.py: the exhaustive backtracking Tetravex solver.    *)
(*                                                                         *)
(* Tiles are Python objects; a tile is modelled by its identity, a number  *)
(* 1..n, and vals[t] is the list Tile.values of that object.  The board is *)
(* the N x N list of lists of Board, the pool is Game.tileset, the history *)
(* is Game.movestack.  The recursion of Game.solve is an explicit stack of *)
(* activation frames.                                                      *)
(***************************************************************************)
EXTENDS Integers, Sequences, FiniteSets, Bags, TLC

VARIABLES
    N,          \* Game.N / Board.N: side of the grid
    vals,       \* vals[t]: Tile.values of tile object t
    board,      \* Board.board: board[<<row, col>>] is a tile or None
    tileset,    \* Game.tileset: the pool of tiles not placed
    movestack,  \* Game.movestack: the moves applied and not undone
    stack,      \* the activations of Game.solve, innermost last
    emitted,    \* the boards printed by solve, as a bag
    fault,      \* the exception that ended the run, or "none"
    lastcall    \* the last mutating call made, with the slot's previous content

vars == <<N, vals, board, tileset, movestack, stack, emitted, fault, lastcall>>

-----------------------------------------------------------------------------
(* Bounds of the model *)

\* edge values are drawn from 1..MaxVal
MaxVal == 2

\* the sides of the grids explored
Sides == {1, 2}

-----------------------------------------------------------------------------
(* class Direction *)

NORTH == 0
SOUTH == 1
EAST == 2
WEST == 3

Direction == {NORTH, SOUTH, EAST, WEST}

get_opposite(dir) ==
    CASE dir = NORTH -> SOUTH
      [] dir = SOUTH -> NORTH
      [] dir = EAST -> WEST
      [] dir = WEST -> EAST

-----------------------------------------------------------------------------
(* class Tile *)

\* the value of an empty slot
None == 0

Val == 1..MaxVal

Faces == [Direction -> Val]

\* a variant of TileEq: an __eq__ that compares the values
TileEq_by_value(a, b) == vals[a] = vals[b]

\* Tile defines no __eq__: two tiles are equal iff they are the same object
TileEq(a, b) == a = b

\* Tile.__hash__: the hash of the value tuple (equal values collide)
TileHash(t) == <<vals[t][NORTH], vals[t][SOUTH], vals[t][EAST], vals[t][WEST]>>

\* a variant of matches: the same side of both tiles is compared
matches_same_side(self, other, side) == vals[self][side] = vals[other][side]

\* Tile.matches(self, other, side)
matches(self, other, side) == vals[self][side] = vals[other][get_opposite(side)]

-----------------------------------------------------------------------------
(* class Board *)

Pos(n) == (0..(n - 1)) \X (0..(n - 1))

\* Board.__init__: every slot None
EmptyBoard(n) == [p \in Pos(n) |-> None]

\* a Python list index: -n..-1 count from the end, anything else outside
\* 0..n-1 raises IndexError
IndexOK(i, n) == i >= -n /\ i < n
PyIdx(i, n) == IF i < 0 THEN i + n ELSE i

\* self.board[row][col]
At(b, n, row, col) == b[<<PyIdx(row, n), PyIdx(col, n)>>]

\* a variant of place_tile: an occupied slot keeps its tile
place_tile_if_empty(b, n, tile, row, col) ==
    IF b[<<PyIdx(row, n), PyIdx(col, n)>>] # None
    THEN b
    ELSE [b EXCEPT ![<<PyIdx(row, n), PyIdx(col, n)>>] = tile]

\* Board.place_tile
place_tile(b, n, tile, row, col) ==
    [b EXCEPT ![<<PyIdx(row, n), PyIdx(col, n)>>] = tile]

\* Board.remove_tile
remove_tile(b, n, row, col) ==
    [b EXCEPT ![<<PyIdx(row, n), PyIdx(col, n)>>] = None]

\* a variant of get_neighbours: the EAST neighbour is looked at before the WEST
get_neighbours_east_first(b, n, row, col) ==
    LET north == IF row > 0 /\ At(b, n, row - 1, col) # None
                 THEN <<[tile |-> At(b, n, row - 1, col), side |-> NORTH]>>
                 ELSE <<>>
        south == IF row + 1 < n /\ At(b, n, row + 1, col) # None
                 THEN <<[tile |-> At(b, n, row + 1, col), side |-> SOUTH]>>
                 ELSE <<>>
        west  == IF col > 0 /\ At(b, n, row, col - 1) # None
                 THEN <<[tile |-> At(b, n, row, col - 1), side |-> WEST]>>
                 ELSE <<>>
        east  == IF col + 1 < n /\ At(b, n, row, col + 1) # None
                 THEN <<[tile |-> At(b, n, row, col + 1), side |-> EAST]>>
                 ELSE <<>>
    IN  north \o south \o east \o west

\* Board.get_neighbours: the list of (tile, side) pairs, built in the order
\* of the four if statements
get_neighbours(b, n, row, col) ==
    LET north == IF row > 0 /\ At(b, n, row - 1, col) # None
                 THEN <<[tile |-> At(b, n, row - 1, col), side |-> NORTH]>>
                 ELSE <<>>
        south == IF row + 1 < n /\ At(b, n, row + 1, col) # None
                 THEN <<[tile |-> At(b, n, row + 1, col), side |-> SOUTH]>>
                 ELSE <<>>
        west  == IF col > 0 /\ At(b, n, row, col - 1) # None
                 THEN <<[tile |-> At(b, n, row, col - 1), side |-> WEST]>>
                 ELSE <<>>
        east  == IF col + 1 < n /\ At(b, n, row, col + 1) # None
                 THEN <<[tile |-> At(b, n, row, col + 1), side |-> EAST]>>
                 ELSE <<>>
    IN  north \o south \o west \o east

\* a variant of tile_fits: the occupant of the slot is not looked at
tile_fits_ignores_occupant(b, n, tile, row, col) ==
    LET neighbours == get_neighbours(b, n, row, col)
    IN  \A k \in 1..Len(neighbours) :
            matches(tile, neighbours[k].tile, neighbours[k].side)

\* Board.tile_fits
tile_fits(b, n, tile, row, col) ==
    IF At(b, n, row, col) # None
    THEN FALSE
    ELSE LET neighbours == get_neighbours(b, n, row, col)
         IN  \A k \in 1..Len(neighbours) :
                 matches(tile, neighbours[k].tile, neighbours[k].side)

-----------------------------------------------------------------------------
(* class GameMove *)

GameMove(tile, row, col) == [tile |-> tile, row |-> row, col |-> col]

-----------------------------------------------------------------------------
(* class Game *)

\* the ways a for loop can enumerate a set: Python fixes no order
Orderings(S) ==
    {s \in [1..Cardinality(S) -> S] : \A i, j \in 1..Cardinality(S) : s[i] = s[j] => i = j}

\* one of them: by ascending identity
Ascending(S) ==
    CHOOSE s \in Orderings(S) : \A i, j \in 1..Cardinality(S) : i < j => s[i] < s[j]

\* set(tiles) of Game.__init__: an element is dropped when an equal one
\* (same hash and __eq__) came earlier in the list
MakeSet(tiles) ==
    {tiles[k] : k \in {k \in 1..Len(tiles) :
        \A j \in 1..(k - 1) : ~(TileHash(tiles[j]) = TileHash(tiles[k]) /\ TileEq(tiles[j], tiles[k]))}}

\* a variant of TargetRow: the row of the number of tiles placed
TargetRow_of_filled(pool, n) == (n * n - Cardinality(pool)) \div n

\* the slot get_moves targets, from the size of the pool
TargetRow(pool, n) == (Cardinality(pool) - 1) \div n

\* a variant of TargetCol: the column of the number of tiles placed
TargetCol_of_filled(pool, n) == (n * n - Cardinality(pool)) % n

TargetCol(pool, n) == (Cardinality(pool) - 1) % n

\* a variant of get_moves: the loop stops at the first tile that fits
get_moves_first_fit(b, pool, n, iter) ==
    LET row == TargetRow(pool, n)
        col == TargetCol(pool, n)
        fits(t) == tile_fits(b, n, t, row, col)
        fitting == SelectSeq(iter, fits)
    IN  [k \in 1..(IF fitting = <<>> THEN 0 ELSE 1) |-> GameMove(fitting[k], row, col)]

\* Game.get_moves, the pool being enumerated in the order iter
get_moves(b, pool, n, iter) ==
    LET row == TargetRow(pool, n)
        col == TargetCol(pool, n)
        fits(t) == tile_fits(b, n, t, row, col)
        fitting == SelectSeq(iter, fits)
    IN  [k \in 1..Len(fitting) |-> GameMove(fitting[k], row, col)]

\* tile_fits indexes self.board[row][col] first: IndexError outside the lists
get_moves_faults(pool, n) ==
    pool # {} /\ ~(IndexOK(TargetRow(pool, n), n) /\ IndexOK(TargetCol(pool, n), n))

\* the state of a Game object
GameState(b, pool, hist, f) == [board |-> b, tileset |-> pool, movestack |-> hist, fault |-> f]

Here == GameState(board, tileset, movestack, fault)

\* a variant of make_move: the tile stays in the pool
make_move_keeps_pool(g, n, move) ==
    LET pushed == Append(g.movestack, move)
        placed == place_tile(g.board, n, move.tile, move.row, move.col)
    IN  IF ~(IndexOK(move.row, n) /\ IndexOK(move.col, n))
        THEN [board |-> g.board, tileset |-> g.tileset, movestack |-> pushed, fault |-> "IndexError"]
        ELSE [board |-> placed, tileset |-> g.tileset, movestack |-> pushed, fault |-> "none"]

\* Game.make_move: three statements, the second and the third may raise
make_move(g, n, move) ==
    LET pushed == Append(g.movestack, move)
        placed == place_tile(g.board, n, move.tile, move.row, move.col)
    IN  IF ~(IndexOK(move.row, n) /\ IndexOK(move.col, n))
        THEN GameState(g.board, g.tileset, pushed, "IndexError")
        ELSE IF move.tile \notin g.tileset
        THEN GameState(placed, g.tileset, pushed, "KeyError")
        ELSE GameState(placed, g.tileset \ {move.tile}, pushed, "none")

\* variants of undo_move: the slot is not cleared; the tile is not given
\* back to the pool; the move stays on the history
undo_move_keeps_slot(g, n) ==
    IF g.movestack = <<>>
    THEN [g EXCEPT !.fault = "IndexError"]
    ELSE [board |-> g.board,
          tileset |-> g.tileset \cup {g.movestack[Len(g.movestack)].tile},
          movestack |-> SubSeq(g.movestack, 1, Len(g.movestack) - 1),
          fault |-> "none"]

undo_move_keeps_tile(g, n) ==
    IF g.movestack = <<>>
    THEN [g EXCEPT !.fault = "IndexError"]
    ELSE [board |-> remove_tile(g.board, n, g.movestack[Len(g.movestack)].row,
                                g.movestack[Len(g.movestack)].col),
          tileset |-> g.tileset,
          movestack |-> SubSeq(g.movestack, 1, Len(g.movestack) - 1),
          fault |-> "none"]

undo_move_keeps_history(g, n) ==
    IF g.movestack = <<>>
    THEN [g EXCEPT !.fault = "IndexError"]
    ELSE [board |-> remove_tile(g.board, n, g.movestack[Len(g.movestack)].row,
                                g.movestack[Len(g.movestack)].col),
          tileset |-> g.tileset \cup {g.movestack[Len(g.movestack)].tile},
          movestack |-> g.movestack,
          fault |-> "none"]

\* a variant of undo_move: an empty history is left alone, nothing is raised
undo_move_quiet_when_empty(g, n) ==
    IF g.movestack = <<>>
    THEN g
    ELSE [board |-> remove_tile(g.board, n, g.movestack[Len(g.movestack)].row,
                                g.movestack[Len(g.movestack)].col),
          tileset |-> g.tileset \cup {g.movestack[Len(g.movestack)].tile},
          movestack |-> SubSeq(g.movestack, 1, Len(g.movestack) - 1),
          fault |-> "none"]

\* Game.undo_move: list.pop raises IndexError on an empty list
undo_move(g, n) ==
    IF g.movestack = <<>>
    THEN GameState(g.board, g.tileset, g.movestack, "IndexError")
    ELSE LET move_to_undo == g.movestack[Len(g.movestack)]
             popped == SubSeq(g.movestack, 1, Len(g.movestack) - 1)
         IN  IF ~(IndexOK(move_to_undo.row, n) /\ IndexOK(move_to_undo.col, n))
             THEN GameState(g.board, g.tileset, popped, "IndexError")
             ELSE GameState(remove_tile(g.board, n, move_to_undo.row, move_to_undo.col),
                            g.tileset \cup {move_to_undo.tile}, popped, "none")

\* a list of moves put in ascending order of its tiles (equal tiles keep
\* their order): the form in which an activation keeps its list
ByTile(moves) ==
    LET idx == CHOOSE p \in Orderings(1..Len(moves)) :
                   \A i, j \in 1..Len(moves) :
                       i < j => \/ moves[p[i]].tile < moves[p[j]].tile
                                \/ moves[p[i]].tile = moves[p[j]].tile /\ p[i] < p[j]
    IN  [k \in 1..Len(moves) |-> moves[idx[k]]]

-----------------------------------------------------------------------------
(* The tile sets explored *)

Tiles(n) == 1..(n * n)

\* the tiles cut from a solved n x n grid whose inner edges carry h (between
\* (r, c) and (r, c+1)) and v (between (r, c) and (r+1, c)), the rim 1;
\* the tile of slot (r, c) is object r*n + c + 1
Cut(n, h, v) ==
    [t \in Tiles(n) |->
        LET r == (t - 1) \div n
            c == (t - 1) % n
        IN  [d \in Direction |->
                CASE d = NORTH -> IF r > 0 THEN v[<<r - 1, c>>] ELSE 1
                  [] d = SOUTH -> IF r < n - 1 THEN v[<<r, c>>] ELSE 1
                  [] d = WEST -> IF c > 0 THEN h[<<r, c - 1>>] ELSE 1
                  [] d = EAST -> IF c < n - 1 THEN h[<<r, c>>] ELSE 1]]

\* a cut grid (any labels on the edges between columns, 1 on the edges
\* between rows) whose first tile then gets any SOUTH, EAST and WEST: sets
\* with no solution, with few and with many, with and without equal tiles
TileSets(n) ==
    {[Cut(n, h, [p \in (0..(n - 2)) \X (0..(n - 1)) |-> 1])
         EXCEPT ![1] = [d \in Direction |-> IF d = NORTH THEN 1 ELSE f[d]]] :
        h \in [(0..(n - 1)) \X (0..(n - 2)) -> Val], f \in [{SOUTH, EAST, WEST} -> Val]}

\* the list of tiles handed to Game(N, tiles)
TileList(n) == [k \in 1..(n * n) |-> k]

-----------------------------------------------------------------------------
(* Game.solve as a state machine *)

\* An activation of solve: where it stands (pc), the list moves, the moves of
\* the list the loop has been through (tried) and the one it is at (cur), and
\* the state of the game when the call was entered (entry).  The list is in
\* the order in which get_moves enumerated the pool, which Python leaves open.
\* get_moves is run on any enumeration of the pool; the model then keeps the
\* list in ascending order of its tiles and lets the loop take any move not
\* yet tried: the runs are those of the list in any order, the order being
\* settled one move at a time.
Frame(pc, moves, tried, cur, entry) ==
    [pc |-> pc, moves |-> moves, tried |-> tried, cur |-> cur, entry |-> entry]

Top == stack[Len(stack)]
Caller == SubSeq(stack, 1, Len(stack) - 1)
SetTop(f) == [stack EXCEPT ![Len(stack)] = f]

NoCall == [op |-> "none", tile |-> None, row |-> 0, col |-> 0, was |-> None]
Call(op, tile, row, col, was) == [op |-> op, tile |-> tile, row |-> row, col |-> col, was |-> was]

\* g = Game(N, tiles); g.solve()
Init ==
    /\ N \in Sides
    /\ vals \in TileSets(N)
    /\ board = EmptyBoard(N)
    /\ tileset = MakeSet(TileList(N))
    /\ movestack = <<>>
    /\ stack = <<Frame("start", <<>>, {}, 0, GameState(board, tileset, movestack, "none"))>>
    /\ emitted = EmptyBag
    /\ fault = "none"
    /\ lastcall = NoCall

Running == fault = "none" /\ stack # <<>>

\* lines 139-142: the pool is empty, print the board and return
SolveBase ==
    /\ Running
    /\ Top.pc = "start"
    /\ tileset = {}
    /\ emitted' = emitted (+) SetToBag({board})
    /\ stack' = Caller
    /\ UNCHANGED <<N, vals, board, tileset, movestack, fault, lastcall>>

\* line 144: moves = self.get_moves()
SolveGetMoves ==
    /\ Running
    /\ Top.pc = "start"
    /\ tileset # {}
    /\ IF get_moves_faults(tileset, N)
       THEN /\ fault' = "IndexError"
            /\ UNCHANGED stack
       ELSE /\ \E iter \in Orderings(tileset) :
                  stack' = SetTop(Frame("loop", ByTile(get_moves(board, tileset, N, iter)),
                                        {}, 0, Top.entry))
            /\ UNCHANGED fault
    /\ UNCHANGED <<N, vals, board, tileset, movestack, emitted, lastcall>>

\* lines 145-147: the next move of the loop is applied and solve is called
SolveMakeMove ==
    /\ Running
    /\ Top.pc = "loop"
    /\ \E k \in (1..Len(Top.moves)) \ Top.tried :
       LET move == Top.moves[k]
           g == make_move(Here, N, move)
       IN  /\ board' = g.board
           /\ tileset' = g.tileset
           /\ movestack' = g.movestack
           /\ fault' = g.fault
           /\ lastcall' = Call("make_move", move.tile, move.row, move.col,
                               IF IndexOK(move.row, N) /\ IndexOK(move.col, N)
                               THEN At(board, N, move.row, move.col) ELSE None)
           /\ stack' = IF g.fault = "none"
                       THEN Append(SetTop(Frame("undo", Top.moves, Top.tried, k, Top.entry)),
                                   Frame("start", <<>>, {}, 0, g))
                       ELSE stack
    /\ UNCHANGED <<N, vals, emitted>>

\* line 148: the call returned, the move is undone
SolveUndoMove ==
    /\ Running
    /\ Top.pc = "undo"
    /\ LET g == undo_move(Here, N)
           undone == IF movestack = <<>> THEN GameMove(None, 0, 0) ELSE movestack[Len(movestack)]
       IN  /\ board' = g.board
           /\ tileset' = g.tileset
           /\ movestack' = g.movestack
           /\ fault' = g.fault
           /\ lastcall' = Call("undo_move", undone.tile, undone.row, undone.col,
                               IF movestack # <<>> /\ IndexOK(undone.row, N) /\ IndexOK(undone.col, N)
                               THEN At(board, N, undone.row, undone.col) ELSE None)
           /\ stack' = IF g.fault = "none"
                       THEN SetTop(Frame("loop", Top.moves, Top.tried \cup {Top.cur}, 0, Top.entry))
                       ELSE stack
    /\ UNCHANGED <<N, vals, emitted>>

\* the for loop is exhausted: solve returns
SolveReturn ==
    /\ Running
    /\ Top.pc = "loop"
    /\ Top.tried = 1..Len(Top.moves)
    /\ stack' = Caller
    /\ UNCHANGED <<N, vals, board, tileset, movestack, emitted, fault, lastcall>>

Next ==
    \/ SolveBase
    \/ SolveGetMoves
    \/ SolveMakeMove
    \/ SolveUndoMove
    \/ SolveReturn

Spec == Init /\ [][Next]_vars

\* the top-level call has returned
Done == fault = "none" /\ stack = <<>>

-----------------------------------------------------------------------------
(* The Board driven directly: a Game is built, solve is not running, and a
   client calls place_tile and remove_tile of its board on any slots *)

\* the tiles of these games: one with any values, the others with 1 on every
\* edge, so that every neighbour of a slot can match or not, each on its own
BoardTileSets(n) ==
    {[[t \in Tiles(n) |-> [d \in Direction |-> 1]] EXCEPT ![1] = f] : f \in Faces}

InitBoard ==
    /\ N \in Sides
    /\ vals \in BoardTileSets(N)
    /\ board = EmptyBoard(N)
    /\ tileset = MakeSet(TileList(N))
    /\ movestack = <<>>
    /\ stack = <<>>
    /\ emitted = EmptyBag
    /\ fault = "none"
    /\ lastcall = NoCall

\* g.board.place_tile(tile, row, col)
BoardPlaceTile ==
    /\ fault = "none"
    /\ \E tile \in DOMAIN vals, row \in 0..(N - 1), col \in 0..(N - 1) :
        /\ board' = place_tile(board, N, tile, row, col)
        /\ lastcall' = Call("place_tile", tile, row, col, At(board, N, row, col))
    /\ UNCHANGED <<N, vals, tileset, movestack, stack, emitted, fault>>

\* g.board.remove_tile(row, col)
BoardRemoveTile ==
    /\ fault = "none"
    /\ \E row \in 0..(N - 1), col \in 0..(N - 1) :
        /\ board' = remove_tile(board, N, row, col)
        /\ lastcall' = Call("remove_tile", None, row, col, At(board, N, row, col))
    /\ UNCHANGED <<N, vals, tileset, movestack, stack, emitted, fault>>

NextBoard ==
    \/ BoardPlaceTile
    \/ BoardRemoveTile

SpecBoard == InitBoard /\ [][NextBoard]_vars

\* the same client on the boards above and on a 3 x 3 board, the smallest
\* with a slot that has four neighbours; there is one tile object, which the
\* client may place in any number of slots
InitBoard3 ==
    /\ N = 3
    /\ vals = [t \in {1} |-> [d \in Direction |-> 1]]
    /\ board = EmptyBoard(N)
    /\ tileset = MakeSet(<<1>>)
    /\ movestack = <<>>
    /\ stack = <<>>
    /\ emitted = EmptyBag
    /\ fault = "none"
    /\ lastcall = NoCall

SpecNeighbours == (InitBoard \/ InitBoard3) /\ [][NextBoard]_vars

-----------------------------------------------------------------------------
(* The Game driven directly: a Game is built, solve is not running, and a
   client calls make_move and undo_move with any moves, in any order *)

\* the client stops applying moves when the history holds MaxHistory of them
MaxHistory == 2

\* every tile with 1 on every edge: make_move and undo_move read no values
PlainTiles(n) == [t \in Tiles(n) |-> [d \in Direction |-> 1]]

InitGame ==
    /\ N \in Sides
    /\ vals = PlainTiles(N)
    /\ board = EmptyBoard(N)
    /\ tileset = MakeSet(TileList(N))
    /\ movestack = <<>>
    /\ stack = <<>>
    /\ emitted = EmptyBag
    /\ fault = "none"
    /\ lastcall = NoCall

\* g.make_move(GameMove(tile, row, col))
GameMakeMove ==
    /\ fault = "none"
    /\ Len(movestack) < MaxHistory
    /\ \E tile \in DOMAIN vals, row \in 0..(N - 1), col \in 0..(N - 1) :
       LET g == make_move(Here, N, GameMove(tile, row, col))
       IN  /\ board' = g.board
           /\ tileset' = g.tileset
           /\ movestack' = g.movestack
           /\ fault' = g.fault
           /\ lastcall' = Call("make_move", tile, row, col, At(board, N, row, col))
    /\ UNCHANGED <<N, vals, stack, emitted>>

\* g.undo_move()
GameUndoMove ==
    /\ fault = "none"
    /\ LET g == undo_move(Here, N)
           undone == IF movestack = <<>> THEN GameMove(None, 0, 0) ELSE movestack[Len(movestack)]
       IN  /\ board' = g.board
           /\ tileset' = g.tileset
           /\ movestack' = g.movestack
           /\ fault' = g.fault
           /\ lastcall' = Call("undo_move", undone.tile, undone.row, undone.col,
                               IF movestack # <<>> THEN At(board, N, undone.row, undone.col) ELSE None)
    /\ UNCHANGED <<N, vals, stack, emitted>>

NextGame ==
    \/ GameMakeMove
    \/ GameUndoMove

SpecGame == InitGame /\ [][NextGame]_vars

\* solve runs to its end unless something stops it: the interpreter executes
\* the next statement of the one thread there is
\* Game.solve run to its end from the game state g with the pool enumerated
\* in ascending order of tile identity at every level: the boards printed so
\* far, out, with those this activation prints. RefLoop is the for loop from
\* the k-th candidate on.
RECURSIVE RefSolve(_, _), RefLoop(_, _, _, _)
RefSolve(g, out) ==
    IF g.tileset = {}
    THEN out (+) SetToBag({g.board})
    ELSE RefLoop(g, get_moves(g.board, g.tileset, N, Ascending(g.tileset)), 1, out)

RefLoop(g, moves, k, out) ==
    IF k > Len(moves)
    THEN out
    ELSE RefLoop(g, moves, k + 1, RefSolve(make_move(g, N, moves[k]), out))

-----------------------------------------------------------------------------
(* Game(N, tiles) built with a list of the wrong length, then solve *)

\* how many tiles more than N*N the list may have
MaxExtra == 1

\* the lists of k distinct tile objects, k other than n*n: the first k tiles
\* of a set above, tiles beyond n*n having every edge 1
MalformedTiles(n) ==
    {[t \in 1..k |-> IF t <= n * n THEN ts[t] ELSE [d \in Direction |-> 1]] :
        ts \in TileSets(n), k \in (0..(n * n + MaxExtra)) \ {n * n}}

InitMalformed ==
    /\ N \in Sides
    /\ vals \in MalformedTiles(N)
    /\ board = EmptyBoard(N)
    /\ tileset = MakeSet([k \in DOMAIN vals |-> k])
    /\ movestack = <<>>
    /\ stack = <<Frame("start", <<>>, {}, 0, GameState(board, tileset, movestack, "none"))>>
    /\ emitted = EmptyBag
    /\ fault = "none"
    /\ lastcall = NoCall

SpecMalformed == InitMalformed /\ [][Next]_vars

LiveSpec == Spec /\ WF_vars(Next)

-----------------------------------------------------------------------------
(* What the properties speak of *)

\* the tiles on a board
OnBoard(b, n) == {b[p] : p \in Pos(n)} \ {None}

\* every slot holds a tile
Full(b, n) == \A p \in Pos(n) : b[p] # None

\* every two occupied slots side by side, or one above the other, touch with equal values
Consistent(b, n) ==
    \A p \in Pos(n) :
        /\ (p[2] + 1 < n /\ b[p] # None /\ b[<<p[1], p[2] + 1>>] # None)
               => vals[b[p]][EAST] = vals[b[<<p[1], p[2] + 1>>]][WEST]
        /\ (p[1] + 1 < n /\ b[p] # None /\ b[<<p[1] + 1, p[2]>>] # None)
               => vals[b[p]][SOUTH] = vals[b[<<p[1] + 1, p[2]>>]][NORTH]

\* a complete arrangement: every tile in exactly one slot, all touching edges equal
IsArrangement(b, n) ==
    /\ Full(b, n)
    /\ \A p, q \in Pos(n) : b[p] = b[q] => p = q
    /\ OnBoard(b, n) = Tiles(n)
    /\ Consistent(b, n)

Arrangements(n) == {b \in [Pos(n) -> Tiles(n)] : IsArrangement(b, n)}

\* the row-major index of a slot
RowMajor(row, col, n) == row * n + col

\* solve is about to return from its innermost activation
Returning ==
    /\ Running
    /\ \/ Top.pc = "start" /\ tileset = {}
       \/ Top.pc = "loop" /\ Top.tried = 1..Len(Top.moves)

AllOnes == \A t \in Tiles(N) : \A d \in Direction : vals[t][d] = 1

-----------------------------------------------------------------------------
(* The claims *)

\* C1: one run of solve emits every complete arrangement of the tiles, each
\* exactly once: no board is ever emitted twice, every emitted board is a
\* complete arrangement, and when solve has returned every complete
\* arrangement has been emitted (it did not stop at the first).
C1_EveryArrangementOnce ==
    /\ \A b \in BagToSet(emitted) : CopiesIn(b, emitted) = 1 /\ IsArrangement(b, N)
    /\ Done => BagToSet(emitted) = Arrangements(N)

C1_Witness == Done /\ N = 2 /\ BagCardinality(emitted) >= 2 /\ BagCardinality(emitted) < 24

\* C2: whenever solve is at its base case (the pool is empty, the board is
\* about to be printed), every slot is occupied and all touching edges of
\* adjacent slots are equal.
C2_BaseCaseBoardSolved ==
    (Running /\ Top.pc = "start" /\ tileset = {}) => Full(board, N) /\ Consistent(board, N)

C2_Witness == Running /\ Top.pc = "start" /\ tileset = {} /\ N = 2 /\ ~AllOnes

\* C3: pool and board in lock-step: the tiles of the pool and the tiles on
\* the board are disjoint, together they are the tiles the game was built
\* with, and |pool| + |history| is the number of tiles.
C3_PoolBoardLockStep ==
    /\ tileset \cap OnBoard(board, N) = {}
    /\ tileset \cup OnBoard(board, N) = Tiles(N)
    /\ Cardinality(tileset) + Len(movestack) = N * N

C3_Witness == lastcall.op = "undo_move" /\ Len(movestack) = 2 /\ Cardinality(tileset) = 2

\* C4 as stated: the k-th tile placed goes to row-major index k-1, the first
\* to (0,0).
C4_RowMajorFromOrigin ==
    \A k \in 1..Len(movestack) :
        /\ movestack[k].row = (k - 1) \div N
        /\ movestack[k].col = (k - 1) % N

\* C4 as amended: the slot targeted is divmod(|pool| - 1, N): the slots are
\* filled in reverse row-major order, the first tile goes to (N-1, N-1) and
\* the k-th tile placed to row-major index N*N - k; every move of the list
\* of the j-th nested activation targets index N*N - j.
C4_ReverseRowMajor ==
    /\ \A k \in 1..Len(movestack) :
           /\ movestack[k].row = (N * N - k) \div N
           /\ movestack[k].col = (N * N - k) % N
    /\ \A j \in 1..Len(stack) : \A k \in 1..Len(stack[j].moves) :
           /\ stack[j].moves[k].row = (N * N - j) \div N
           /\ stack[j].moves[k].col = (N * N - j) % N

C4_Witness == N = 2 /\ Len(movestack) = N * N

\* C5: every activation of solve returns with board, pool and history as
\* they were when it was entered; when the outermost has returned the board
\* is empty, the history is empty and the pool holds every tile.
C5_RestoreOnReturn ==
    /\ Returning =>
           /\ board = Top.entry.board
           /\ tileset = Top.entry.tileset
           /\ movestack = Top.entry.movestack
    /\ Done => board = EmptyBoard(N) /\ movestack = <<>> /\ tileset = Tiles(N)

C5_Witness ==
    Returning /\ Len(stack) = 3 /\ Top.pc = "loop" /\ Cardinality(Top.tried) >= 1

\* C6: in every state of a run, for every move get_moves returns there,
\* make_move followed by undo_move gives the state back: same slots, same
\* pool, same history, no exception.
C6_UndoOfApplyIsIdentity ==
    ~get_moves_faults(tileset, N) =>
        \A iter \in Orderings(tileset) :
            LET moves == get_moves(board, tileset, N, iter)
            IN  \A k \in 1..Len(moves) :
                    undo_move(make_move(Here, N, moves[k]), N) = Here

C6_Witness ==
    /\ lastcall.op = "undo_move"
    /\ movestack # <<>>
    /\ Cardinality(tileset) >= 2
    /\ Len(get_moves(board, tileset, N, Ascending(tileset))) >= 2

\* C7: solve terminates: the outermost call returns in every run; every
\* make_move shrinks the pool; the history is never longer than N*N and the
\* activations never more than N*N + 1; and when no arrangement of the tiles
\* satisfies the adjacency constraints, solve has emitted nothing.
C7_Terminates ==
    /\ <>Done
    /\ [][Len(movestack') > Len(movestack) => Cardinality(tileset') < Cardinality(tileset)]_vars
    /\ [](Len(movestack) <= N * N /\ Len(stack) <= N * N + 1)
    /\ []((Done /\ Arrangements(N) = {}) => emitted = EmptyBag)

C7_Witness == Done /\ N = 2 /\ Arrangements(N) = {}

\* C8: the pool holds tile objects, not value tuples: built from N*N objects
\* it has N*N members whatever their values, and four tiles with all edges 1
\* on the 2 x 2 board give 24 emitted solutions.
C8_IdentityNotValue ==
    /\ movestack = <<>> => Cardinality(tileset) = N * N
    /\ (Done /\ N = 2 /\ AllOnes) => BagCardinality(emitted) = 24

C8_Witness == Done /\ N = 2 /\ AllOnes /\ BagCardinality(emitted) = 24

\* what tile_fits is to answer where the slot (row, col) is empty
FitsNeighbours(b, n, tile, row, col) ==
    /\ (row - 1 >= 0 /\ b[<<row - 1, col>>] # None) =>
           vals[tile][NORTH] = vals[b[<<row - 1, col>>]][SOUTH]
    /\ (row + 1 <= n - 1 /\ b[<<row + 1, col>>] # None) =>
           vals[tile][SOUTH] = vals[b[<<row + 1, col>>]][NORTH]
    /\ (col - 1 >= 0 /\ b[<<row, col - 1>>] # None) =>
           vals[tile][WEST] = vals[b[<<row, col - 1>>]][EAST]
    /\ (col + 1 <= n - 1 /\ b[<<row, col + 1>>] # None) =>
           vals[tile][EAST] = vals[b[<<row, col + 1>>]][WEST]

\* C9: tile_fits(tile, row, col) is false whenever the slot is occupied,
\* whatever the neighbours; for an empty slot it is true iff for every
\* occupied neighbour inside the grid the tile's edge facing the neighbour
\* equals the neighbour's opposite edge.
C9_TileFits ==
    \A tile \in Tiles(N), row \in 0..(N - 1), col \in 0..(N - 1) :
        /\ board[<<row, col>>] # None => ~tile_fits(board, N, tile, row, col)
        /\ board[<<row, col>>] = None =>
               (tile_fits(board, N, tile, row, col) <=> FitsNeighbours(board, N, tile, row, col))

\* an occupied slot whose neighbours a tile would match, and an empty slot
\* with two occupied neighbours that one tile fits and another does not
C9_Witness ==
    /\ N = 2
    /\ \E tile \in Tiles(N), row \in 0..(N - 1), col \in 0..(N - 1) :
           /\ board[<<row, col>>] # None
           /\ FitsNeighbours(board, N, tile, row, col)
    /\ \E t1, t2 \in Tiles(N), row \in 0..(N - 1), col \in 0..(N - 1) :
           /\ board[<<row, col>>] = None
           /\ Len(get_neighbours(board, N, row, col)) = 2
           /\ tile_fits(board, N, t1, row, col)
           /\ ~tile_fits(board, N, t2, row, col)

\* C10 as stated: place on an occupied slot is a fault and the occupant stays.
C10_PlaceOnOccupiedFaults ==
    (lastcall.op = "place_tile" /\ lastcall.was # None) =>
        /\ fault # "none"
        /\ board[<<lastcall.row, lastcall.col>>] = lastcall.was

\* C10 as amended: place on an occupied slot raises nothing and is accepted:
\* place_tile overwrites the occupant with the new tile, and make_move of a
\* tile of the pool onto an occupied slot completes without a fault, the
\* slot holding the tile of the move.
C10_PlaceOnOccupiedOverwrites ==
    /\ (lastcall.op = "place_tile" /\ lastcall.was # None) =>
           /\ fault = "none"
           /\ board[<<lastcall.row, lastcall.col>>] = lastcall.tile
    /\ \A tile \in tileset, row \in 0..(N - 1), col \in 0..(N - 1) :
           board[<<row, col>>] # None =>
               LET g == make_move(Here, N, GameMove(tile, row, col))
               IN  /\ g.fault = "none"
                   /\ g.board[<<row, col>>] = tile
                   /\ g.movestack = Append(movestack, GameMove(tile, row, col))
                   /\ g.tileset = tileset \ {tile}

C10_Witness ==
    /\ lastcall.op = "place_tile"
    /\ lastcall.was # None
    /\ lastcall.was # lastcall.tile
    /\ board[<<lastcall.row, lastcall.col>>] = lastcall.tile


\* C11: undo_move called with an empty history does not return normally: it
\* raises (IndexError of list.pop), and board, pool and history are as before
\* the call.
C11_UndoOnEmptyHistoryFaults ==
    [][(movestack = <<>> /\ lastcall'.op = "undo_move") =>
          /\ fault' = "IndexError"
          /\ board' = board
          /\ tileset' = tileset
          /\ movestack' = movestack]_vars

\* undo_move was called on an empty history
C11_Witness ==
    /\ lastcall.op = "undo_move"
    /\ lastcall.tile = None
    /\ movestack = <<>>
    /\ fault = "IndexError"
    /\ N = 2


\* C12: in every state of solve a tile is in at most one slot of the board.
C12_TileInAtMostOneSlot ==
    \A p, q \in Pos(N) : (board[p] # None /\ board[p] = board[q]) => p = q

C12_Witness == N = 2 /\ Len(movestack) = 3 /\ lastcall.op = "undo_move"

\* C13: solve meets the preconditions of the Board: every place_tile (in
\* make_move) targets a slot inside the grid that is empty, every remove_tile
\* (in undo_move) targets a slot inside the grid that holds the tile of the
\* move being undone.
C13_BoardPreconditionsMet ==
    /\ lastcall.op = "make_move" =>
           /\ lastcall.row \in 0..(N - 1)
           /\ lastcall.col \in 0..(N - 1)
           /\ lastcall.was = None
    /\ lastcall.op = "undo_move" =>
           /\ lastcall.row \in 0..(N - 1)
           /\ lastcall.col \in 0..(N - 1)
           /\ lastcall.tile # None
           /\ lastcall.was = lastcall.tile

C13_Witness == N = 2 /\ lastcall.op = "undo_move" /\ Len(movestack) = 2

\* the moves applied and not undone are those the activations below the
\* innermost stand at, one per activation, outermost first
NestedApplies ==
    /\ Len(movestack) <= Len(stack)
    /\ Len(stack) <= Len(movestack) + 1
    /\ \A j \in 1..Len(stack) :
           /\ \A k1, k2 \in 1..Len(stack[j].moves) :
                  stack[j].moves[k1].tile = stack[j].moves[k2].tile => k1 = k2
           /\ stack[j].tried \subseteq 1..Len(stack[j].moves)
           /\ j <= Len(movestack) =>
                  /\ stack[j].pc = "undo"
                  /\ stack[j].cur \in (1..Len(stack[j].moves)) \ stack[j].tried
                  /\ movestack[j] = stack[j].moves[stack[j].cur]
           /\ j > Len(movestack) => stack[j].pc \in {"start", "loop"} /\ stack[j].cur = 0

\* a step that applies a move, undoes one, or returns from an activation
PairedStep ==
    /\ Len(movestack') > Len(movestack) =>
           /\ Top.pc = "loop"
           /\ Len(stack) = Len(movestack) + 1
           /\ \E k \in (1..Len(Top.moves)) \ Top.tried : movestack' = Append(movestack, Top.moves[k])
           /\ Len(stack') = Len(stack) + 1
    /\ Len(movestack') < Len(movestack) =>
           /\ Len(stack) = Len(movestack)
           /\ Top.pc = "undo"
           /\ movestack[Len(movestack)] = Top.moves[Top.cur]
           /\ movestack' = SubSeq(movestack, 1, Len(movestack) - 1)
           /\ lastcall'.tile = Top.moves[Top.cur].tile
           /\ stack' = SetTop(Frame("loop", Top.moves, Top.tried \cup {Top.cur}, 0, Top.entry))
    /\ (Len(stack') < Len(stack) /\ Top.pc = "loop") => Top.tried = 1..Len(Top.moves)

\* C14: applies and undos are nested and paired: a candidate of a level is
\* applied once (it is not among those already undone, and no other of the
\* level is applied and not undone), it is undone after the call made for it
\* has returned and before the next candidate of the level is applied, the
\* move undone is the last one applied and not yet undone, and an activation
\* returns only when every candidate of its list has been applied and undone.
C14_AppliesAndUndosNested ==
    /\ []NestedApplies
    /\ [][PairedStep]_vars

C14_Witness ==
    /\ N = 2
    /\ Len(stack) = 3
    /\ stack[2].pc = "undo"
    /\ stack[2].tried # {}
    /\ Top.pc = "loop"
    /\ Top.tried # {}


\* the four slots around (row, col), in the order NORTH, SOUTH, WEST, EAST
Around(row, col) ==
    << [at |-> <<row - 1, col>>, side |-> NORTH],
       [at |-> <<row + 1, col>>, side |-> SOUTH],
       [at |-> <<row, col - 1>>, side |-> WEST],
       [at |-> <<row, col + 1>>, side |-> EAST] >>

\* those of them that are inside the grid and occupied, each with its tile
OccupiedAround(b, n, row, col) ==
    LET present(a) == a.at \in Pos(n) /\ b[a.at] # None
        there == SelectSeq(Around(row, col), present)
    IN  [k \in 1..Len(there) |-> [tile |-> b[there[k].at], side |-> there[k].side]]

\* C15: get_neighbours(row, col) has exactly one entry (tile, side) for each
\* of the four adjacent positions that is inside the grid and occupied, none
\* for the others; side is the direction of the neighbour seen from
\* (row, col); the entries come in the order NORTH, SOUTH, WEST, EAST.
C15_NeighboursInOrder ==
    \A row \in 0..(N - 1), col \in 0..(N - 1) :
        get_neighbours(board, N, row, col) = OccupiedAround(board, N, row, col)

\* the middle slot of the 3 x 3 board with its four neighbours occupied, one
\* of the corners empty
C15_Witness ==
    /\ N = 3
    /\ Len(get_neighbours(board, N, 1, 1)) = 4
    /\ board[<<0, 0>>] = None


\* the single next position of a non-empty pool
NextPosition(pool, n) == <<(Cardinality(pool) - 1) \div n, (Cardinality(pool) - 1) % n>>

\* what get_moves is to return for the pool enumerated in the order iter:
\* one move per fitting tile, nothing else, all at the next position
OneMovePerFittingTile(iter) ==
    LET moves == get_moves(board, tileset, N, iter)
        at    == NextPosition(tileset, N)
        fit(t) == board[at] = None /\ FitsNeighbours(board, N, t, at[1], at[2])
    IN  /\ \A t \in tileset :
               Cardinality({k \in 1..Len(moves) : moves[k].tile = t})
                   = IF fit(t) THEN 1 ELSE 0
        /\ \A k \in 1..Len(moves) :
               /\ moves[k].tile \in tileset
               /\ <<moves[k].row, moves[k].col>> = at
        /\ Len(moves) <= Cardinality(tileset)

\* the step of solve that calls get_moves
GetMovesStep == Running /\ Top.pc = "start" /\ tileset # {} /\ fault' = "none"

\* C16: with a non-empty pool get_moves returns exactly one move for each
\* pool tile that fits the next position and none for any other tile, all
\* moves carry that position, there are at most |pool| of them, and the call
\* changes neither board, pool nor history.
C16_OneMovePerFittingTile ==
    /\ [](tileset # {} /\ fault = "none" =>
              \A iter \in Orderings(tileset) : OneMovePerFittingTile(iter))
    /\ [][GetMovesStep =>
              /\ board' = board /\ tileset' = tileset /\ movestack' = movestack
              /\ stack'[Len(stack)].pc = "loop"
              /\ \E iter \in Orderings(tileset) :
                     stack'[Len(stack)].moves = ByTile(get_moves(board, tileset, N, iter))]_vars

\* get_moves has just returned two candidates out of a pool of three, a tile
\* being on the board already
C16_Witness ==
    /\ N = 2 /\ Running /\ Top.pc = "loop" /\ Top.tried = {}
    /\ Cardinality(tileset) = 3
    /\ Len(Top.moves) = 2


\* C17: in every state reached during solve, every two horizontally or
\* vertically adjacent slots that are both occupied have equal touching edge
\* values, whether or not the pool is empty.
C17_PartialBoardConsistent == Consistent(board, N)

\* three tiles placed, so that pairs touch in both directions, the last tile
\* of the pool fitting nowhere: a dead end that is a valid partial solution
C17_Witness ==
    /\ N = 2 /\ Running /\ Top.pc = "loop"
    /\ Cardinality(tileset) = 1
    /\ Top.moves = <<>>


\* the slot with row-major index i
SlotAt(i, n) == <<i \div n, i % n>>

\* C18: in every state of solve on a Game built with N*N distinct tiles, the
\* slot with row-major index i = row*N + col is occupied if and only if
\* i >= |pool|, and the i-th entry of the history (counted from 0) records the
\* tile at row-major index N*N - 1 - i.
C18_OccupiedRegionShape ==
    /\ \A p \in Pos(N) : board[p] # None <=> p[1] * N + p[2] >= Cardinality(tileset)
    /\ \A i \in 0..(Len(movestack) - 1) :
           /\ movestack[i + 1].tile = board[SlotAt(N * N - 1 - i, N)]
           /\ <<movestack[i + 1].row, movestack[i + 1].col>> = SlotAt(N * N - 1 - i, N)

\* three moves deep on the 2 x 2 board: only the slot with index 0 is empty
C18_Witness ==
    /\ N = 2 /\ Running /\ Top.pc = "start"
    /\ Len(movestack) = 3
    /\ board[<<0, 0>>] = None /\ board[<<0, 1>>] # None


\* the game as Game.__init__ leaves it
FreshGame ==
    GameState(CHOOSE b \in [Pos(N) -> {None}] : b = EmptyBoard(N), Tiles(N), <<>>, "none")

\* the moves of a list, as a set
MoveSet(moves) == {moves[k] : k \in 1..Len(moves)}

\* C19: the position targeted depends only on the size of the pool, not on
\* the order in which the pool is iterated, and for a fixed tile set the
\* boards emitted by solve, and how many, are the same for every iteration
\* order: every run ends with the boards the ascending-order run emits.
C19_OrderIndependence ==
    /\ (tileset # {} /\ fault = "none") =>
           /\ \A Q \in SUBSET Tiles(N) :
                  Cardinality(Q) = Cardinality(tileset) =>
                      \A j \in Orderings(Q) :
                          \A m \in MoveSet(get_moves(board, Q, N, j)) :
                              <<m.row, m.col>> = NextPosition(tileset, N)
           /\ \A iter \in Orderings(tileset) :
                  MoveSet(get_moves(board, tileset, N, iter))
                      = MoveSet(get_moves(board, tileset, N, Ascending(tileset)))
    /\ Done => emitted = RefSolve(FreshGame, EmptyBag)

\* a finished run whose outermost loop took the tile of least identity last,
\* and which emitted more than one board
C19_Witness ==
    /\ Done /\ N = 2
    /\ lastcall.op = "undo_move" /\ lastcall.tile = 1
    /\ BagCardinality(emitted) >= 2


\* the number of tiles the game was built with
Built == Cardinality(DOMAIN vals)

\* the occupied slots of a board
Occupied(b, n) == {p \in Pos(n) : b[p] # None}

\* C20: a Game built with k distinct tiles, 0 <= k < N*N, raises no fault in
\* solve, emits whenever the pool becomes empty, and every board it emits has
\* exactly k occupied slots and N*N - k empty ones; with k = 0 it emits the
\* empty board once.  Built with more than N*N distinct tiles, it faults on
\* the first candidate generation, the row being outside the grid, before
\* emitting anything.
C20_MalformedPoolSize ==
    /\ [](Built < N * N =>
             /\ fault = "none"
             /\ \A b \in BagToSet(emitted) :
                    /\ Cardinality(Occupied(b, N)) = Built
                    /\ Cardinality(Pos(N) \ Occupied(b, N)) = N * N - Built
             /\ Built = 0 => BagCardinality(emitted) <= 1
             /\ (Built = 0 /\ Done) => emitted = SetToBag({EmptyBoard(N)}))
    /\ [][(Built < N * N /\ Running /\ Top.pc = "start" /\ tileset = {}) =>
              /\ BagCardinality(emitted') = BagCardinality(emitted) + 1
              /\ BagIn(board, emitted')]_vars
    /\ [](Built > N * N =>
             /\ emitted = EmptyBag
             /\ board = EmptyBoard(N) /\ movestack = <<>>
             /\ Cardinality(tileset) = Built
             /\ (Cardinality(tileset) - 1) \div N >= N
             /\ fault \in {"none", "IndexError"}
             /\ fault = "none" => Len(stack) = 1 /\ Top.pc = "start" /\ lastcall = NoCall)
    /\ [][Built > N * N => fault' = "IndexError"]_vars

\* three tiles on the 2 x 2 board: a board with three occupied slots has
\* been emitted and the search goes on
C20_Witness ==
    /\ N = 2 /\ Built = 3
    /\ emitted # EmptyBag
    /\ Running /\ Top.pc = "undo"

====
